---- MODULE Spec2Model ----
(***************************************************************************)
(* Model of custom_components/motion_occupancy_time/sensor.py: the        *)
(* occupancy store, the manager that reconciles binary sensors and folds  *)
(* their on/off values into OccupancyState records, and the derived       *)
(* sensors that read those records.                                       *)
(*                                                                         *)
(* Time.  A datetime is an integer number of clock ticks; one tick is     *)
(* TickMs milliseconds.  total_seconds is kept in the same unit (ticks),  *)
(* native_value is returned in hundredths of a second, because it is      *)
(* round(..., 2).  dt_util.utcnow() is the wall clock: it may step        *)
(* backwards.                                                             *)
(*                                                                         *)
(* Not modelled: the device registry links (_device_info_for_entity and   *)
(* _ensure_entity_device_links only touch registry metadata) and float    *)
(* rounding error of the seconds arithmetic.                              *)
(*                                                                         *)
(* Specifications.  Spec is the running manager: async_initialize, the    *)
(* interval reconciliation, state_changed events delivered through the    *)
(* subscription, and the clock.  SpecSave adds the delayed save firing,   *)
(* SpecHandler calls _handle_state_change directly with any event data,   *)
(* SpecRead reads the total sensor, SpecUnload adds async_unload,         *)
(* SpecLoad starts from damaged documents, SpecRoundTrip writes and loads  *)
(* any mapping of records.                                                 *)
(***************************************************************************)
EXTENDS Integers, Sequences, FiniteSets, TLC

\* ------------------------------------------------------------------ bounds
MaxTime == 2            \* clock readings are 0..MaxTime
MaxActivations == 2     \* sessions opened per record
MaxScheduled == 2       \* async_schedule_save calls counted between two writes

\* ------------------------------------------------------- program constants
TickMs == 4             \* one clock tick, in milliseconds

SUPPORTED_DEVICE_CLASSES == {"motion", "occupancy", "presence"}

\* The binary sensors of the host.  "bs.m_count" is a source whose id is
\* another source's id followed by "_count"; "bs.door" has a device class
\* the integration does not support and is in the state machine throughout.
Ids == {"bs.m", "bs.m_count", "bs.door"}
Sources == {"bs.m", "bs.m_count"}
DeviceClass(id) ==
    IF id = "bs.m" THEN "motion"
    ELSE IF id = "bs.m_count" THEN "occupancy"
    ELSE "door"

None == -1              \* Python None for an optional datetime
Times == 0..MaxTime
Absent == "absent"      \* hass.states.get(id) is None
HassValues == {"on", "off", "unavailable"}
\* The states each source takes in the model: "bs.m" takes every state,
\* "bs.m_count" comes and goes but stays off.
ValuesOf(id) == IF id = "bs.m" THEN HassValues ELSE {"off"}
NoId == ""              \* event.data.get("entity_id") is missing

VARIABLES
    now,            \* the next reading of dt_util.utcnow()
    hassStates,     \* the host state machine: id -> state string or Absent
    store,          \* the persisted document of Store (NoDoc when none)
    states,         \* MotionOccupancyStore._states: id -> OccupancyState
    savePending,    \* number of delayed saves of Store that are pending
    entities,       \* MotionOccupancyManager._entities: key -> sensor
    added,          \* sensors passed to async_add_entities, in order
    source_entity_ids,   \* MotionOccupancyManager._source_entity_ids
    tracked_entity_ids,  \* MotionOccupancyManager._tracked_entity_ids
    unsub_state,    \* _unsub_state is not None
    unsub_interval, \* _unsub_interval is not None
    activeSubs,     \* active state-change subscriptions (their id sets)
    activeTimers,   \* number of active interval timers
    pc,             \* position of async_initialize
    unloaded,       \* async_unload has run
    \* history variables: what the last step did
    step,           \* the operation of the last step and its input
    obs,            \* id -> what _sync_state observed for it in the last step
    written,        \* the async_write_ha_state calls of the last step
    skewed,         \* the clock has stepped backwards
    lastKnown,      \* id -> last on/off value folded into its record
    sessionSum,     \* id -> sum over its closed sessions of close - open
    lastRead,       \* id -> last value read from its total sensor
    scheduled,      \* async_schedule_save calls since the last write (capped)
    strict_write,   \* async_write_ha_state raises for a sensor not yet added
    loaded          \* _states of a second MotionOccupancyStore on the same Store

vars == <<now, hassStates, store, states, savePending, entities, added,
          source_entity_ids, tracked_entity_ids, unsub_state, unsub_interval,
          activeSubs, activeTimers, pc, unloaded, step, obs, written, skewed,
          lastKnown, sessionSum, lastRead, scheduled, strict_write, loaded>>

\* ------------------------------------------------------------ OccupancyState
OccupancyState ==
    [total_seconds |-> 0, total_activations |-> 0, on_since |-> None,
     last_updated |-> None, last_triggered |-> None]

\* Python's `a or b` on optional datetimes (a datetime is always truthy).
OrElse(a, b) == IF a # None THEN a ELSE b

\* (now - last_updated).total_seconds(): the signed difference.
Elapsed(t, since) == t - since

\* "on" while on_since is None: a session opens.
OpenSession(state, t) ==
    [state EXCEPT !.on_since = t,
                  !.last_updated = t,
                  !.total_activations = @ + 1,
                  !.last_triggered = t]

\* ExtendSession with the elapsed time taken from on_since: the part of the
\* session already accrued is counted again.
ExtendSessionFromStart(state, t) ==
    [state EXCEPT !.total_seconds = @ + Elapsed(t, state.on_since),
                  !.last_updated = t]

\* ExtendSession that also counts the redundant "on" as an activation.
ExtendSessionCounting(state, t) ==
    LET last_updated == OrElse(state.last_updated, state.on_since)
    IN  [state EXCEPT !.total_seconds = @ + Elapsed(t, last_updated),
                      !.last_updated = t,
                      !.total_activations = @ + 1]

\* "on" while a session is open: the time since the last accrual is added.
ExtendSession(state, t) ==
    LET last_updated == OrElse(state.last_updated, state.on_since)
    IN  [state EXCEPT !.total_seconds = @ + Elapsed(t, last_updated),
                      !.last_updated = t]

\* CloseSession that forgets to clear on_since.
CloseSessionStaysOpen(state, t) ==
    LET last_updated == OrElse(state.last_updated, state.on_since)
    IN  [state EXCEPT !.total_seconds = @ + Elapsed(t, last_updated),
                      !.last_updated = None]

\* "off" while a session is open: the rest is added and the session closes.
CloseSession(state, t) ==
    LET last_updated == OrElse(state.last_updated, state.on_since)
    IN  [state EXCEPT !.total_seconds = @ + Elapsed(t, last_updated),
                      !.on_since = None,
                      !.last_updated = None]

\* SyncRecord in which "off" touches a record that has no open session.
SyncRecordOffStamps(state, value, t) ==
    IF value = "on" THEN
        IF state.on_since = None THEN OpenSession(state, t) ELSE ExtendSession(state, t)
    ELSE IF value = "off" THEN
        IF state.on_since # None THEN CloseSession(state, t)
        ELSE [state EXCEPT !.last_triggered = t]
    ELSE state

\* The record part of _sync_state: what one observation does to a record.
SyncRecord(state, value, t) ==
    IF value = "on" THEN
        IF state.on_since = None THEN OpenSession(state, t) ELSE ExtendSession(state, t)
    ELSE IF value = "off" THEN
        IF state.on_since # None THEN CloseSession(state, t) ELSE state
    ELSE state

\* SetDefault that starts a new mapping for an id it does not know.
SetDefaultReplacing(sts, id) ==
    IF id \in DOMAIN sts THEN sts ELSE (id :> OccupancyState)

\* self._store.states.setdefault(entity_id, OccupancyState())
SetDefault(sts, id) == IF id \in DOMAIN sts THEN sts ELSE (id :> OccupancyState) @@ sts

\* The store part of _sync_state.
SyncStates(sts, id, value, t) ==
    LET s == SetDefault(sts, id)
    IN  [s EXCEPT ![id] = SyncRecord(s[id], value, t)]

\* ------------------------------------------------------- persisted document
\* The document is [present, states]: states maps an id to an entry, a JSON
\* object.  Every field value is the text of a JSON value: JNull for null, a
\* string for itself (timestamps are ISO-8601 strings), a number for its
\* decimal literal.
JNull == "<null>"
NoDoc == [present |-> FALSE, states |-> <<>>]

\* dict.get(key, default)
Get(d, key, default) == IF key \in DOMAIN d THEN d[key] ELSE default

\* The numbers the totals of a record can reach within the clock bound.
Numbers == (0 - 4 * MaxTime - 1) .. (4 * MaxTime + 1)
JsonNumber(n) == ToString(n)

\* float(x) and int(x) of a field value: the number a numeric literal denotes
\* (also when it is given as a string); they raise on null (TypeError) and
\* on any other string (ValueError).
IsNumber(j) == \E n \in Numbers : JsonNumber(n) = j
ToNumber(j) == CHOOSE n \in Numbers : JsonNumber(n) = j

Pad3(n) ==
    IF n < 10 THEN "00" \o ToString(n)
    ELSE IF n < 100 THEN "0" \o ToString(n)
    ELSE ToString(n)

\* IsoFormat cut to whole seconds, as isoformat(timespec="seconds") is.
IsoFormatSeconds(t) == "1970-01-01T00:00:00+00:00"

\* datetime.isoformat() of an aware UTC datetime: the fraction is left out
\* when the microsecond field is 0.
IsoFormat(t) ==
    LET ms == t * TickMs
    IN  IF ms = 0 THEN "1970-01-01T00:00:00+00:00"
        ELSE "1970-01-01T00:00:00." \o Pad3(ms) \o "000+00:00"

\* dt_util.parse_datetime: the datetime an ISO string denotes, None when the
\* string is not one.
ParseDatetime(s) ==
    IF \E t \in Times : IsoFormat(t) = s
    THEN CHOOSE t \in Times : IsoFormat(t) = s
    ELSE None

\* `if state.get(key)`: JSON null and the empty string are falsy.
Truthy(j) == j # JNull /\ j # ""

SerializeTime(t) == IF t # None THEN IsoFormat(t) ELSE JNull

SerializeState(state) ==
    [total_seconds |-> JsonNumber(state.total_seconds),
     total_activations |-> JsonNumber(state.total_activations),
     on_since |-> SerializeTime(state.on_since),
     last_updated |-> SerializeTime(state.last_updated),
     last_triggered |-> SerializeTime(state.last_triggered)]

\* MotionOccupancyStore._serialize
Serialize(sts) ==
    [present |-> TRUE, states |-> [id \in DOMAIN sts |-> SerializeState(sts[id])]]

LoadTime(j) == IF Truthy(j) THEN ParseDatetime(j) ELSE None

\* The OccupancyState built from one entry of the document.
LoadState(entry) ==
    [total_seconds |-> ToNumber(Get(entry, "total_seconds", JsonNumber(0))),
     total_activations |-> ToNumber(Get(entry, "total_activations", JsonNumber(0))),
     on_since |-> LoadTime(Get(entry, "on_since", JNull)),
     last_updated |-> LoadTime(Get(entry, "last_updated", JNull)),
     last_triggered |-> LoadTime(Get(entry, "last_triggered", JNull))]

\* float(...) or int(...) raises while the entry is loaded.
EntryRaises(entry) ==
    \/ ~IsNumber(Get(entry, "total_seconds", JsonNumber(0)))
    \/ ~IsNumber(Get(entry, "total_activations", JsonNumber(0)))

\* async_load raises on the document: nothing in it catches the exception.
LoadRaises(doc) ==
    doc.present /\ \E id \in DOMAIN doc.states : EntryRaises(doc.states[id])

\* MotionOccupancyStore.async_load, from the document the Store returns.
AsyncLoad(sts, doc) ==
    IF ~doc.present \/ DOMAIN doc.states = {} THEN sts
    ELSE [id \in DOMAIN doc.states |-> LoadState(doc.states[id])] @@ sts

\* The loop of async_load over the entries in the order `order`, up to the
\* first entry that raises: the entries before it are in _states already.
RECURSIVE LoadUntilRaise(_, _, _)
LoadUntilRaise(sts, entries, order) ==
    IF order = <<>> \/ EntryRaises(entries[Head(order)]) THEN sts
    ELSE LoadUntilRaise((Head(order) :> LoadState(entries[Head(order)])) @@ sts,
                        entries, Tail(order))

\* DelaySave that starts one more delayed save next to the pending ones.
DelaySaveStacking(pending) == pending + 1

\* async_schedule_save: Store.async_delay_save(self._serialize, SAVE_DELAY)
\* replaces the delayed save that is pending, if any, by a new one.
DelaySave(pending) == 1

\* ------------------------------------------------------------------ sensors
CountKey(id) == id \o "_count"
TotalSensor(id) == [kind |-> "total", source |-> id]
CountSensor(id) == [kind |-> "count", source |-> id]

Range(seq) == {seq[i] : i \in 1..Len(seq)}

\* entity.async_write_ha_state() for a sensor that has not been added to the
\* host yet (its hass attribute is None): Home Assistant's Entity raises
\* RuntimeError; a host that does not check just takes the write.  Which
\* host the program runs on is fixed at the start (strict_write).
WriteRaises(ents, reg, key) ==
    strict_write /\ key \in DOMAIN ents /\ ents[key] \notin reg

\* The loop of async_write_ha_state calls at the end of _sync_state raises.
SyncRaises(ents, reg, id) ==
    WriteRaises(ents, reg, id) \/ WriteRaises(ents, reg, CountKey(id))

\* The async_write_ha_state calls at the end of _sync_state, up to the first
\* that raises: each records the sensor and whether it had been passed to
\* async_add_entities before.
SyncWrites(ents, reg, id) ==
    {[entity |-> ents[k], registered |-> ents[k] \in reg] :
        k \in {key \in {id, CountKey(id)} \cap DOMAIN ents :
                   key = id \/ ~WriteRaises(ents, reg, id)}}

\* round(x, 2) of x ticks, in hundredths of a second.
Round2(x) == (x * TickMs + 5) \div 10

\* NativeValue without the time since the last accrual point.
NativeValueStoredOnly(sts, id, t) ==
    IF id \notin DOMAIN sts THEN 0 ELSE Round2(sts[id].total_seconds)

\* MotionOccupancyTotalSensor.native_value at clock reading t.
NativeValue(sts, id, t) ==
    IF id \notin DOMAIN sts THEN 0
    ELSE LET state == sts[id]
             ongoing == IF state.on_since # None
                        THEN Elapsed(t, OrElse(state.last_updated, state.on_since))
                        ELSE 0
         IN  Round2(state.total_seconds + ongoing)

\* MotionOccupancyCountSensor.native_value
CountValue(sts, id) ==
    IF id \notin DOMAIN sts THEN 0 ELSE sts[id].total_activations

\* ------------------------------------------------------------------ manager
\* The binary sensors _refresh_entities keeps: those present in the state
\* machine whose device class is supported.
MotionStates(hs) ==
    {id \in Ids : hs[id] # Absent /\ DeviceClass(id) \in SUPPORTED_DEVICE_CLASSES}

\* All orders in which hass.states.async_all may list the ids of S.
Orders(S) ==
    {o \in [1..Cardinality(S) -> S] : \A i, j \in 1..Cardinality(S) : o[i] = o[j] => i = j}

\* What the last step's _sync_state call saw for an id: the observed value,
\* whether the record existed and whether its session was open before.
NoObs == [value |-> "-", existed |-> FALSE, wasOpen |-> FALSE]
Observation(sts, id, value) ==
    [value |-> value,
     existed |-> id \in DOMAIN sts,
     wasOpen |-> id \in DOMAIN sts /\ sts[id].on_since # None]

\* One iteration of the loop of _refresh_entities, for the source `id` whose
\* state is `value`: create its two sensors when `id` is no key of _entities,
\* then _sync_state.  m is [states, entities, new_entities, written, synced,
\* raised]: synced are the ids _sync_state was called for, raised tells that
\* the call raised.
RefreshOne(m, reg, id, value, t) ==
    LET isNew == id \notin DOMAIN m.entities
        ents == IF isNew
                THEN (CountKey(id) :> CountSensor(id)) @@ (id :> TotalSensor(id))
                         @@ m.entities
                ELSE m.entities
    IN  [states |-> SyncStates(m.states, id, value, t),
         entities |-> ents,
         new_entities |-> IF isNew
                          THEN m.new_entities \o <<TotalSensor(id), CountSensor(id)>>
                          ELSE m.new_entities,
         written |-> m.written \cup SyncWrites(ents, reg, id),
         synced |-> m.synced \cup {id},
         raised |-> SyncRaises(ents, reg, id)]

\* The loop of _refresh_entities; an exception of _sync_state ends it.
RECURSIVE RefreshLoop(_, _, _, _, _)
RefreshLoop(m, reg, order, hs, t) ==
    IF order = <<>> \/ m.raised THEN m
    ELSE RefreshLoop(RefreshOne(m, reg, Head(order), hs[Head(order)], t),
                     reg, Tail(order), hs, t)

\* _update_state_listener on l = [tracked, unsub, subs, cancelled, created]:
\* subs are the active subscriptions, the handle `unsub` cancels the last one
\* created; cancelled and created count the calls of the handle and of
\* async_track_state_change_event.
UpdateStateListener(l, entity_ids) ==
    IF entity_ids = l.tracked THEN l
    ELSE LET subs1 == IF l.unsub THEN SubSeq(l.subs, 1, Len(l.subs) - 1) ELSE l.subs
         IN  [tracked |-> entity_ids,
              unsub |-> entity_ids # {},
              subs |-> IF entity_ids # {} THEN Append(subs1, entity_ids) ELSE subs1,
              cancelled |-> l.cancelled + (IF l.unsub THEN 1 ELSE 0),
              created |-> l.created + (IF entity_ids # {} THEN 1 ELSE 0)]

\* _handle_state_change on h = [states, savePending, saves, written, synced]
\* for the event (entity_id, new_state); new_state "None" is a removed
\* entity; saves counts the async_schedule_save calls.  When _sync_state
\* raises, the handler ends before async_schedule_save.
HandleStateChange(h, ents, reg, entity_id, new_state, t) ==
    IF entity_id = NoId \/ new_state = "None" THEN h
    ELSE LET raises == SyncRaises(ents, reg, entity_id)
         IN  [states |-> SyncStates(h.states, entity_id, new_state, t),
              savePending |-> IF raises THEN h.savePending
                              ELSE DelaySave(h.savePending),
              saves |-> IF raises THEN h.saves ELSE h.saves + 1,
              written |-> h.written \cup SyncWrites(ents, reg, entity_id),
              synced |-> TRUE]

\* The handler runs once per active subscription that covers the id.
RECURSIVE Deliver(_, _, _, _, _, _, _)
Deliver(n, h, ents, reg, entity_id, new_state, t) ==
    IF n = 0 THEN h
    ELSE Deliver(n - 1, HandleStateChange(h, ents, reg, entity_id, new_state, t),
                 ents, reg, entity_id, new_state, t)

Subscribers(subs, id) == Cardinality({i \in 1..Len(subs) : id \in subs[i]})

\* -------------------------------------------------------------------- Init
\* Documents a previous run can have left for the source "bs.m" by clock
\* reading t: none, a closed record, or a record with a session still open.
ClosedEntry(t) ==
    SerializeState([total_seconds |-> 1, total_activations |-> 1, on_since |-> None,
                    last_updated |-> None, last_triggered |-> t])
OpenEntry(t) ==
    SerializeState([total_seconds |-> 0, total_activations |-> 1, on_since |-> t,
                    last_updated |-> t, last_triggered |-> t])
Doc(entry) == [present |-> TRUE, states |-> ("bs.m" :> entry)]
InitDocs(t) == {NoDoc, Doc(ClosedEntry(t)), Doc(OpenEntry(t))}

NoStep == [op |-> "new", id |-> NoId, value |-> "-", delivered |-> 0, coalesced |-> 0,
           cancelled |-> 0, created |-> 0]
NoRead == [seen |-> FALSE, value |-> 0]

\* Documents that are damaged or were written by hand: an empty mapping,
\* an entry with fields missing, one with a timestamp that is no ISO string,
\* entries with a numeric field that is null or no number, and a good entry
\* next to a bad one.
NullSecondsEntry == [ClosedEntry(0) EXCEPT !.total_seconds = JNull]
LoadDocs ==
    {NoDoc,
     [present |-> TRUE, states |-> <<>>],
     Doc(ClosedEntry(0)),
     Doc([total_seconds |-> JsonNumber(1)]),
     Doc([OpenEntry(0) EXCEPT !.on_since = "yesterday"]),
     Doc(NullSecondsEntry),
     Doc([ClosedEntry(0) EXCEPT !.total_activations = "many"]),
     [present |-> TRUE,
      states |-> ("bs.m" :> NullSecondsEntry) @@ ("bs.m_count" :> ClosedEntry(0))]}

\* Every OccupancyState with a timestamp or none in each of the three
\* fields, and the mappings the round trip is taken of.
AllRecords ==
    [total_seconds : {0 - 1, 0, 3}, total_activations : {0, 2},
     on_since : Times \cup {None}, last_updated : Times \cup {None},
     last_triggered : Times \cup {None}]
RoundTripMappings ==
    {<<>>}
        \cup {("bs.m" :> r) : r \in AllRecords}
        \cup {("bs.m" :> r) @@ ("bs.door" :> OccupancyState) :
                  r \in {q \in AllRecords : q.on_since = q.last_updated}}

\* Documents whose entries lack fields.
PartialDocs ==
    {Doc([on_since |-> IsoFormat(1), last_triggered |-> JNull]),
     Doc([total_seconds |-> JsonNumber(3), total_activations |-> JsonNumber(2)]),
     Doc([total_activations |-> JsonNumber(2), last_updated |-> IsoFormat(MaxTime)])}

\* The state after MotionOccupancyManager.__init__ with the Store holding one
\* of the documents `docs`; _states holds one of `mappings`, with `pending`
\* delayed saves, and the program is at `position`.
Start(docs, mappings, pending, position) ==
    /\ now = 0
    /\ hassStates = [id \in Ids |-> IF id = "bs.door" THEN "on" ELSE Absent]
    /\ store \in docs
    /\ states \in mappings
    /\ savePending = pending
    /\ entities = <<>>
    /\ added = <<>>
    /\ source_entity_ids = {}
    /\ tracked_entity_ids = {}
    /\ unsub_state = FALSE
    /\ unsub_interval = FALSE
    /\ activeSubs = <<>>
    /\ activeTimers = 0
    /\ pc = position
    /\ unloaded = FALSE
    /\ step = NoStep
    /\ obs = [id \in Ids |-> NoObs]
    /\ written = {}
    /\ skewed = FALSE
    /\ lastKnown = [id \in Ids |-> "-"]
    /\ sessionSum = [id \in Ids |-> 0]
    /\ lastRead = [id \in Ids |-> NoRead]
    /\ scheduled = pending
    /\ strict_write \in BOOLEAN
    /\ loaded = <<>>

\* async_initialize is awaiting the store, which holds what a previous run
\* left.
Init == Start(InitDocs(0), {<<>>}, 0, "loading")

\* ----------------------------------------------------------------- actions
Listener ==
    [tracked |-> tracked_entity_ids, unsub |-> unsub_state, subs |-> activeSubs,
     cancelled |-> 0, created |-> 0]

\* History of a step that took the store mapping from pre to post with the
\* observations o: the last on/off value of each record, and the length of
\* every session the step closed.
\* A loaded record carries the history of the run that wrote it: its last
\* value was "on" iff it was written open, and its closed sessions add up to
\* what it had accrued before the open one.
KnownBefore(pre) ==
    IF pc # "loading" THEN lastKnown
    ELSE [id \in Ids |-> IF id \notin DOMAIN pre THEN "-"
                         ELSE IF pre[id].on_since # None THEN "on" ELSE "off"]
SumBefore(pre) ==
    IF pc # "loading" THEN sessionSum
    ELSE [id \in Ids |->
             IF id \notin DOMAIN pre THEN 0
             ELSE IF pre[id].on_since = None THEN pre[id].total_seconds
             ELSE pre[id].total_seconds
                      - (OrElse(pre[id].last_updated, pre[id].on_since) - pre[id].on_since)]

History(pre, post, o) ==
    /\ lastKnown' = [id \in Ids |-> IF o[id].value \in {"on", "off"}
                                    THEN o[id].value
                                    ELSE KnownBefore(pre)[id]]
    /\ sessionSum' = [id \in Ids |->
           IF /\ id \in DOMAIN pre /\ pre[id].on_since # None
              /\ id \in DOMAIN post /\ post[id].on_since = None
           THEN SumBefore(pre)[id] + (now - pre[id].on_since)
           ELSE SumBefore(pre)[id]]

\* n more async_schedule_save calls since the last write.
Scheduled(n) == IF scheduled + n > MaxScheduled THEN MaxScheduled ELSE scheduled + n

\* The model stops opening sessions on a record at MaxActivations.
WithinBounds(sts) == \A id \in DOMAIN sts : sts[id].total_activations <= MaxActivations

\* The loop of _refresh_entities over the store mapping sts, listing the
\* sources in `order`.
Pass(sts, order) ==
    RefreshLoop([states |-> sts, entities |-> entities, new_entities |-> <<>>,
                 written |-> {}, synced |-> {}, raised |-> FALSE],
                Range(added), order, hassStates, now)

\* _refresh_entities over the store mapping sts, listing the sources in
\* `order`, in a step of kind op; the listener is updated `n` times with the
\* new source set.  When _sync_state raises, the pass ends there: the sensors
\* created so far stay in _entities, none is passed to async_add_entities,
\* no save is scheduled and the listener is not updated.
RefreshEntities(op, sts, order, n) ==
    LET ids == Range(order)
        m == Pass(sts, order)
        l1 == UpdateStateListener(Listener, ids)
        l == IF n = 1 THEN l1 ELSE UpdateStateListener(l1, ids)
    IN  /\ states' = m.states
        /\ entities' = m.entities
        /\ written' = m.written
        /\ obs' = [id \in Ids |-> IF id \in m.synced
                                  THEN Observation(sts, id, hassStates[id])
                                  ELSE NoObs]
        /\ WithinBounds(m.states)
        /\ History(sts, m.states, obs')
        /\ IF m.raised
           THEN /\ step' = [NoStep EXCEPT !.op = "aborted"]
                /\ UNCHANGED <<added, savePending, scheduled, source_entity_ids,
                               tracked_entity_ids, unsub_state, activeSubs>>
           ELSE /\ added' = added \o m.new_entities
                /\ savePending' = DelaySave(savePending)
                /\ scheduled' = Scheduled(1)
                /\ source_entity_ids' = ids
                /\ tracked_entity_ids' = l.tracked
                /\ unsub_state' = l.unsub
                /\ activeSubs' = l.subs
                /\ step' = [NoStep EXCEPT !.op = op, !.cancelled = l.cancelled,
                                           !.created = l.created]

\* async_initialize resumes with the loaded document: async_load, the first
\* _refresh_entities, _setup_state_listener and the interval timer.  An
\* exception of the first _refresh_entities leaves async_initialize before
\* the listener and the timer are set up.
AsyncInitialize ==
    /\ pc = "loading"
    /\ ~LoadRaises(store)
    /\ \E order \in Orders(MotionStates(hassStates)) :
           /\ RefreshEntities("initialize", AsyncLoad(states, store), order, 2)
           /\ IF Pass(AsyncLoad(states, store), order).raised
              THEN /\ pc' = "failed"
                   /\ UNCHANGED <<unsub_interval, activeTimers>>
              ELSE /\ pc' = "running"
                   /\ unsub_interval' = TRUE
                   /\ activeTimers' = activeTimers + 1
    /\ UNCHANGED <<strict_write, loaded, now, hassStates, store, unloaded, skewed, lastRead>>

\* async_initialize resumes with a document on which async_load raises: the
\* exception leaves async_initialize (and async_setup_entry) before the first
\* _refresh_entities; the entries loaded before it stay in _states.
AsyncInitializeAborts ==
    /\ pc = "loading"
    /\ LoadRaises(store)
    /\ \E order \in Orders(DOMAIN store.states) :
           states' = LoadUntilRaise(states, store.states, order)
    /\ pc' = "failed"
    /\ step' = [NoStep EXCEPT !.op = "aborted"]
    /\ obs' = [id \in Ids |-> NoObs]
    /\ written' = {}
    /\ UNCHANGED <<strict_write, loaded, now, hassStates, store, savePending, entities, added,
                   source_entity_ids, tracked_entity_ids, unsub_state,
                   unsub_interval, activeSubs, activeTimers, unloaded, skewed,
                   lastKnown, sessionSum, lastRead, scheduled>>

\* _handle_interval: an active interval timer fires.
HandleInterval ==
    /\ activeTimers > 0
    /\ \E order \in Orders(MotionStates(hassStates)) :
           RefreshEntities("interval", states, order, 1)
    /\ UNCHANGED <<strict_write, loaded, now, hassStates, store, unsub_interval, activeTimers, pc,
                   unloaded, skewed, lastRead>>

\* async_unload
AsyncUnload ==
    /\ ~unloaded
    /\ unloaded' = TRUE
    /\ activeSubs' = IF unsub_state
                     THEN SubSeq(activeSubs, 1, Len(activeSubs) - 1)
                     ELSE activeSubs
    /\ unsub_state' = FALSE
    /\ activeTimers' = IF unsub_interval THEN activeTimers - 1 ELSE activeTimers
    /\ unsub_interval' = FALSE
    /\ step' = [NoStep EXCEPT !.op = "unload"]
    /\ obs' = [id \in Ids |-> NoObs]
    /\ written' = {}
    /\ UNCHANGED <<strict_write, loaded, now, hassStates, store, states, savePending, entities, added,
                   source_entity_ids, tracked_entity_ids, pc, skewed, lastKnown,
                   sessionSum, lastRead, scheduled>>

\* The event (entity_id, new_state) reaches _handle_state_change n times, in
\* a step of kind op.
Dispatch(op, n, entity_id, new_state) ==
    LET h == Deliver(n, [states |-> states, savePending |-> savePending,
                         saves |-> 0, written |-> {}, synced |-> FALSE],
                     entities, Range(added), entity_id, new_state, now)
    IN  /\ states' = h.states
        /\ WithinBounds(h.states)
        /\ savePending' = h.savePending
        /\ scheduled' = Scheduled(h.saves)
        /\ written' = h.written
        /\ obs' = [id \in Ids |-> IF h.synced /\ id = entity_id
                                  THEN Observation(states, id, new_state)
                                  ELSE NoObs]
        /\ History(states, h.states, obs')
        /\ step' = [NoStep EXCEPT !.op = op, !.id = entity_id, !.value = new_state,
                                   !.delivered = n]

\* A binary sensor's state is written to (or removed from) the state machine;
\* the state_changed event goes to the subscriptions that cover the id.
StateChanged(id, v) ==
    /\ ~(v = Absent /\ hassStates[id] = Absent)
    /\ hassStates' = [hassStates EXCEPT ![id] = v]
    /\ Dispatch("event", Subscribers(activeSubs, id), id,
                IF v = Absent THEN "None" ELSE v)
    /\ UNCHANGED <<strict_write, loaded, now, store, entities, added, source_entity_ids,
                   tracked_entity_ids, unsub_state, unsub_interval, activeSubs,
                   activeTimers, pc, unloaded, skewed, lastRead>>

\* The wall clock moves: forwards, or backwards (once in a behaviour, which
\* keeps total_seconds bounded).
Tick(t) ==
    /\ t # now
    /\ now' = t
    /\ t < now => ~skewed
    /\ skewed' = (skewed \/ t < now)
    /\ step' = [NoStep EXCEPT !.op = "tick"]
    /\ obs' = [id \in Ids |-> NoObs]
    /\ written' = {}
    /\ UNCHANGED <<strict_write, loaded, hassStates, store, states, savePending, entities, added,
                   source_entity_ids, tracked_entity_ids, unsub_state,
                   unsub_interval, activeSubs, activeTimers, pc, unloaded, lastKnown,
                   sessionSum, lastRead, scheduled>>

\* A delayed save of async_schedule_save fires: _serialize is called and its
\* result written.
Flush ==
    /\ savePending > 0
    /\ store' = Serialize(states)
    /\ savePending' = savePending - 1
    /\ scheduled' = 0
    /\ step' = [NoStep EXCEPT !.op = "flush", !.coalesced = scheduled]
    /\ obs' = [id \in Ids |-> NoObs]
    /\ written' = {}
    /\ UNCHANGED <<strict_write, loaded, now, hassStates, states, entities, added, source_entity_ids,
                   tracked_entity_ids, unsub_state, unsub_interval, activeSubs,
                   activeTimers, pc, unloaded, skewed, lastKnown, sessionSum,
                   lastRead>>

Next ==
    \/ AsyncInitialize
    \/ HandleInterval
    \/ \E id \in Sources : \E v \in ValuesOf(id) \cup {Absent} : StateChanged(id, v)
    \/ \E t \in Times : Tick(t)

Spec == Init /\ [][Next]_vars

\* The program with the store's delayed save firing, at one clock reading
\* (scheduling and flushing a save do not read the clock).
NextSave ==
    \/ AsyncInitialize
    \/ HandleInterval
    \/ \E id \in Sources : \E v \in ValuesOf(id) \cup {Absent} : StateChanged(id, v)
    \/ Flush

SpecSave == Init /\ [][NextSave]_vars

\* _handle_state_change called directly with any event data, as a caller
\* outside the subscription may: an id with no record, a missing id, a
\* missing new state.  SpecHandler runs at one clock reading.
DirectValues(id) ==
    IF id = "bs.m" THEN HassValues \cup {"None"}
    ELSE IF id = NoId THEN {"on"}
    ELSE {"off", "None"}

HandleStateChangeDirect(entity_id, new_state) ==
    /\ pc = "running"
    /\ Dispatch("direct", 1, entity_id, new_state)
    /\ UNCHANGED <<strict_write, loaded, now, hassStates, store, entities, added, source_entity_ids,
                   tracked_entity_ids, unsub_state, unsub_interval, activeSubs,
                   activeTimers, pc, unloaded, skewed, lastRead>>

NextHandler ==
    \/ AsyncInitialize
    \/ HandleInterval
    \/ \E id \in Sources : \E v \in ValuesOf(id) \cup {Absent} : StateChanged(id, v)
    \/ \E id \in Ids \cup {NoId} : \E v \in DirectValues(id) :
           HandleStateChangeDirect(id, v)

SpecHandler == Init /\ [][NextHandler]_vars

\* The host reads native_value of the total sensor of a source.
ReadTotal(id) ==
    /\ TotalSensor(id) \in Range(added)
    /\ lastRead' = [lastRead EXCEPT ![id] =
                        [seen |-> TRUE, value |-> NativeValue(states, id, now)]]
    /\ step' = [NoStep EXCEPT !.op = "read", !.id = id]
    /\ obs' = [i \in Ids |-> NoObs]
    /\ written' = {}
    /\ UNCHANGED <<strict_write, loaded, now, hassStates, store, states, savePending, entities, added,
                   source_entity_ids, tracked_entity_ids, unsub_state,
                   unsub_interval, activeSubs, activeTimers, pc, unloaded, skewed,
                   lastKnown, sessionSum, scheduled>>

\* SpecRead follows the source "bs.m" alone and reads its total sensor.
NextRead ==
    \/ AsyncInitialize
    \/ HandleInterval
    \/ \E v \in HassValues \cup {Absent} : StateChanged("bs.m", v)
    \/ \E t \in Times : Tick(t)
    \/ ReadTotal("bs.m")

SpecRead == Init /\ [][NextRead]_vars

\* The program started on any document of LoadDocs, at one clock reading.
InitLoad == Start(LoadDocs, {<<>>}, 0, "loading")

NextLoad ==
    \/ AsyncInitialize
    \/ AsyncInitializeAborts
    \/ HandleInterval
    \/ \E id \in Sources : \E v \in ValuesOf(id) \cup {Absent} : StateChanged(id, v)

SpecLoad == InitLoad /\ [][NextLoad]_vars

\* A new MotionOccupancyStore loads the document of the Store into its own
\* _states.  The store that wrote the document keeps its mapping, and a
\* delayed save it has pending stays bound to its _serialize.
Reload ==
    /\ pc = "roundtrip"
    /\ ~LoadRaises(store)
    /\ loaded' = AsyncLoad(<<>>, store)
    /\ pc' = "reloaded"
    /\ step' = [NoStep EXCEPT !.op = "reload"]
    /\ obs' = [id \in Ids |-> NoObs]
    /\ written' = {}
    /\ UNCHANGED <<strict_write, now, hassStates, store, states, savePending, entities, added,
                   source_entity_ids, tracked_entity_ids, unsub_state,
                   unsub_interval, activeSubs, activeTimers, unloaded, skewed,
                   lastKnown, sessionSum, lastRead, scheduled>>

\* The store alone: _states holds any mapping and a save is pending, or the
\* Store holds a document with fields missing; the save fires, and a new
\* store loads the document.
InitRoundTrip ==
    \/ Start({NoDoc}, RoundTripMappings, 1, "roundtrip")
    \/ Start(PartialDocs, {<<>>}, 0, "roundtrip")

NextRoundTrip == Flush \/ Reload

SpecRoundTrip == InitRoundTrip /\ [][NextRoundTrip]_vars

\* The program with the config entry being unloaded at any point, also while
\* async_initialize awaits the store; at one clock reading (async_unload
\* does not read the clock).
NextUnload ==
    \/ AsyncInitialize
    \/ HandleInterval
    \/ \E id \in Sources : \E v \in ValuesOf(id) \cup {Absent} : StateChanged(id, v)
    \/ AsyncUnload

SpecUnload == Init /\ [][NextUnload]_vars

\* ------------------------------------------------------------------ claims
\* The store mapping a step starts from: the loaded document for the step
\* that resumes async_initialize, _states for every other step.
PreStates ==
    IF pc = "loading" /\ pc' # "loading" /\ ~LoadRaises(store)
    THEN AsyncLoad(states, store)
    ELSE states

\* The step is a reconciliation pass: one that ran to its end, or one that an
\* exception of _sync_state ended.
PassStep ==
    \/ step'.op \in {"initialize", "interval"}
    \/ step'.op = "aborted" /\ ~(pc = "loading" /\ LoadRaises(store))

\* C1: for every record, total_seconds and total_activations never decrease
\* from one step to the next.
C1_TotalsNeverDecrease ==
    [][\A id \in DOMAIN PreStates :
           /\ states'[id].total_seconds >= PreStates[id].total_seconds
           /\ states'[id].total_activations >= PreStates[id].total_activations]_vars

\* C2: when an open session is extended or closed at a clock reading earlier
\* than its last accrual point, nothing is added to total_seconds.
C2_NegativeIntervalClamped ==
    [][\A id \in DOMAIN PreStates :
           LET before == PreStates[id]
           IN  (/\ obs'[id].value \in {"on", "off"}
                /\ before.on_since # None
                /\ now < OrElse(before.last_updated, before.on_since))
               => states'[id].total_seconds = before.total_seconds]_vars

\* C3: with a clock that never steps backwards, total_seconds of a record is
\* the sum over its sessions of (last accrual point - session open time); a
\* record that started at zero and has had one session holds exactly the
\* length of that session, so no interval is counted twice.
C3_AccrualIsSessionSum ==
    ~skewed =>
        \A id \in DOMAIN states :
            LET state == states[id]
                open == IF state.on_since # None
                        THEN state.last_updated - state.on_since
                        ELSE 0
            IN  /\ state.total_seconds = sessionSum[id] + open
                /\ (store = NoDoc /\ state.total_activations = 1)
                       => /\ state.on_since # None => state.total_seconds = open
                          /\ state.total_seconds <= now - state.last_triggered

\* "on" at 0 and "off" at 2 on a zero record: 2 ticks, one activation, closed.
C3_Witness ==
    /\ ~skewed /\ store = NoDoc /\ now = 2
    /\ "bs.m" \in DOMAIN states
    /\ obs["bs.m"].value = "off" /\ obs["bs.m"].wasOpen
    /\ states["bs.m"] = [total_seconds |-> 2, total_activations |-> 1,
                         on_since |-> None, last_updated |-> None,
                         last_triggered |-> 0]

\* C4: a step raises total_activations of a record by exactly 1 when it
\* observes "on" with on_since absent and leaves it unchanged otherwise; "on"
\* observed with a session open adds (t - last_updated) to total_seconds, sets
\* last_updated = t and changes nothing else of the record.
C4_ActivationOnlyOnOpen ==
    [][\A id \in Ids :
           LET pre == PreStates
               before == IF id \in DOMAIN pre THEN pre[id] ELSE OccupancyState
               after == IF id \in DOMAIN states' THEN states'[id] ELSE OccupancyState
               opens == obs'[id].value = "on" /\ before.on_since = None
           IN  /\ after.total_activations
                      = before.total_activations + (IF opens THEN 1 ELSE 0)
               /\ (obs'[id].value = "on" /\ before.on_since # None)
                      => /\ after.total_seconds
                               = before.total_seconds + (now - before.last_updated)
                         /\ after.last_updated = now
                         /\ after.on_since = before.on_since
                         /\ after.last_triggered = before.last_triggered]_vars

\* A reconciliation pass re-observes "on" for an open session later on.
C4_Witness ==
    /\ step.op = "interval"
    /\ obs["bs.m"].value = "on" /\ obs["bs.m"].wasOpen
    /\ states["bs.m"].total_activations = 1
    /\ states["bs.m"].on_since < now
    /\ states["bs.m"].last_updated = now
    /\ states["bs.m"].total_seconds > 0

\* C5: "off" observed for a record with no open session leaves every field of
\* the record unchanged, each time it is observed.
C5_OffWhenClosedIsNoOp ==
    [][\A id \in DOMAIN PreStates :
           (obs'[id].value = "off" /\ PreStates[id].on_since = None)
               => states'[id] = PreStates[id]]_vars

\* "off" is observed for a closed record that has accrued time, after an
\* earlier "off" closed it.
C5_Witness ==
    /\ store = NoDoc
    /\ obs["bs.m"].value = "off" /\ obs["bs.m"].existed /\ ~obs["bs.m"].wasOpen
    /\ lastKnown["bs.m"] = "off"
    /\ states["bs.m"].total_seconds > 0
    /\ states["bs.m"].last_triggered # None

\* C7: last_updated is present iff on_since is present, and then
\* last_updated >= on_since.
C7_AccrualPointTracksSession ==
    \A id \in DOMAIN states :
        /\ (states[id].last_updated # None) <=> (states[id].on_since # None)
        /\ states[id].on_since # None => states[id].last_updated >= states[id].on_since

\* C8: on_since is present iff the last on/off value folded into the record
\* was "on".
C8_OpenIffLastKnownOn ==
    \A id \in DOMAIN states :
        (states[id].on_since # None) <=> (lastKnown[id] = "on")

\* A session stays open through an "unavailable" observation.
C8_Witness ==
    /\ obs["bs.m"].value = "unavailable" /\ obs["bs.m"].wasOpen
    /\ states["bs.m"].on_since # None
    /\ lastKnown["bs.m"] = "on"

\* The total of a record as of clock reading t, in milliseconds: what it has
\* accrued plus the time since the last accrual point of an open session.
LiveTotalMs(state, t) ==
    TickMs * (state.total_seconds
                 + (IF state.on_since # None THEN t - state.last_updated ELSE 0))

\* C6 as stated: a read returns exactly total_seconds + (t - last accrual
\* point) while a session is open and total_seconds otherwise.
C6_ReadIsExactLiveTotal ==
    [][(step'.op = "read" /\ step'.id \in DOMAIN states)
           => 10 * lastRead'[step'.id].value = LiveTotalMs(states[step'.id], now)]_vars

\* C6 amended: a read changes no record and returns the live total rounded to
\* the nearest hundredth of a second; with a clock that never steps backwards
\* successive reads of a sensor never decrease.
C6_ReadIsRoundedLiveTotal ==
    [][step'.op = "read" =>
           LET id == step'.id
               value == lastRead'[id].value
           IN  /\ states' = states
               /\ id \in DOMAIN states
                      => /\ 10 * value - LiveTotalMs(states[id], now) <= 5
                         /\ LiveTotalMs(states[id], now) - 10 * value <= 5
               /\ id \notin DOMAIN states => value = 0
               /\ (~skewed /\ lastRead[id].seen) => value >= lastRead[id].value]_vars

\* "on" at 0 on a zero record, read at 2: two ticks of 4 ms read as 0.01 s.
C6_Witness ==
    /\ step.op = "read" /\ step.id = "bs.m" /\ now = 2 /\ store = NoDoc
    /\ "bs.m" \in DOMAIN states
    /\ states["bs.m"] = [total_seconds |-> 0, total_activations |-> 1,
                         on_since |-> 0, last_updated |-> 0, last_triggered |-> 0]
    /\ lastRead["bs.m"] = [seen |-> TRUE, value |-> 1]

\* C9: a delivered notification whose new state is missing or neither "on"
\* nor "off" changes no record and schedules no save.
C9_OtherValueIsNoOp ==
    [][(step'.op = "event" /\ step'.delivered > 0 /\ step'.value \notin {"on", "off"})
           => (states' = states /\ savePending' = savePending)]_vars

\* C10: a notification for an id with no record does not raise: it creates a
\* zero record for it and applies the transition of the notified value to
\* that record.
C10_UntrackedIdGetsRecord ==
    [][(/\ step'.op = "direct"
        /\ step'.id # NoId
        /\ step'.value # "None"
        /\ step'.id \notin DOMAIN states)
           => /\ ~SyncRaises(entities, Range(added), step'.id)
              /\ step'.id \in DOMAIN states'
              /\ states'[step'.id] =
                     IF step'.value = "on"
                     THEN [total_seconds |-> 0, total_activations |-> 1,
                           on_since |-> now, last_updated |-> now,
                           last_triggered |-> now]
                     ELSE [total_seconds |-> 0, total_activations |-> 0,
                           on_since |-> None, last_updated |-> None,
                           last_triggered |-> None]]_vars

\* C11: no step removes a record, and a reconciliation pass (also one that
\* an exception ended) leaves every field of the record of a source that is
\* not in its snapshot unchanged.
C11_RecordsAppendOnly ==
    [][/\ DOMAIN PreStates \subseteq DOMAIN states'
       /\ PassStep
              => \A id \in DOMAIN PreStates \ MotionStates(hassStates) :
                     states'[id] = PreStates[id]]_vars

\* A pass runs after "bs.m" left the state machine with its session open and
\* while "bs.m_count" is present: the stale record is still there, still open.
C11_Witness ==
    /\ step.op = "interval" /\ store = NoDoc
    /\ source_entity_ids = {"bs.m_count"}
    /\ DOMAIN states = {"bs.m", "bs.m_count"}
    /\ states["bs.m"].on_since # None
    /\ states["bs.m"].total_activations = 1

\* C12: every state write that _sync_state issues reaches a sensor that has
\* already been passed to async_add_entities, also the write of the first
\* _sync_state call for a source a pass has just discovered.
C12_RegisteredBeforeFirstSync ==
    \A w \in written : w.registered

\* C13: however many times a save is scheduled before the delayed save fires,
\* at most one delayed save is pending; when it fires it writes the records as
\* they are after the last mutation, and nothing is left pending, so no second
\* write follows until a save is scheduled again.
C13_OneWritePerWindow ==
    [][/\ savePending' <= 1
       /\ (scheduled' > 0) <=> (savePending' > 0)
       /\ step'.op = "flush"
              => /\ savePending = 1 /\ savePending' = 0
                 /\ step'.coalesced = scheduled
                 /\ store' = Serialize(states)
                 /\ states' = states]_vars

\* The first write of a run follows two scheduled saves (the first pass and
\* an "on" event) and holds the record the event opened.
C13_Witness ==
    /\ step.op = "flush" /\ step.coalesced >= 2
    /\ savePending = 0
    /\ "bs.m" \in DOMAIN states /\ states["bs.m"].on_since # None
    /\ store = Serialize(states)

\* C14: when the persisted document is corrupt or has a malformed entry,
\* async_initialize is not aborted: it runs the first reconciliation,
\* subscribes to the sources found and starts the interval timer.
C14_LoadFailureTolerated ==
    (pc # "loading" /\ LoadRaises(store))
        => /\ pc = "running"
           /\ unsub_interval /\ activeTimers = 1
           /\ tracked_entity_ids = source_entity_ids
           /\ unsub_state <=> source_entity_ids # {}

\* C15: a new store that loads what _serialize wrote holds a mapping equal to
\* the serialized one, field for field; a timestamp that is null or missing
\* in an entry loads as absent, a missing numeric field as 0.
C15_SerializeLoadRoundTrip ==
    [][step'.op = "reload" =>
           /\ store = Serialize(states) => loaded' = states
           /\ DOMAIN loaded' = DOMAIN store.states
           /\ \A id \in DOMAIN store.states :
                  LET entry == store.states[id]
                  IN  /\ \A key \in {"total_seconds", "total_activations"} :
                             key \notin DOMAIN entry => loaded'[id][key] = 0
                      /\ \A key \in {"on_since", "last_updated", "last_triggered"} :
                             (key \notin DOMAIN entry \/ entry[key] = JNull)
                                 => loaded'[id][key] = None]_vars

\* A record with sub-second timestamps in two fields and none in the third
\* has been written and loaded again.
C15_Witness ==
    /\ step.op = "reload" /\ store = Serialize(states)
    /\ DOMAIN states = {"bs.m"}
    /\ states["bs.m"] = [total_seconds |-> 3, total_activations |-> 2,
                         on_since |-> 1, last_updated |-> MaxTime,
                         last_triggered |-> None]
    /\ loaded = states

\* C16: after a reconciliation pass at most one subscription is active: the
\* one for the sources of the pass's snapshot, none when there is none.  A
\* pass whose set differs from the subscribed one cancels the subscription it
\* holds and creates one, in that step; a pass whose set is the subscribed
\* one cancels and creates nothing.
C16_OneSubscriptionPerPass ==
    [][PassStep =>
           LET ids == MotionStates(hassStates)
           IN  /\ activeSubs' = IF ids = {} THEN <<>> ELSE <<ids>>
               /\ tracked_entity_ids' = ids
               /\ unsub_state' <=> ids # {}
               /\ IF ids = tracked_entity_ids
                  THEN /\ step'.cancelled = 0 /\ step'.created = 0
                       /\ activeSubs' = activeSubs
                  ELSE /\ step'.cancelled = Len(activeSubs)
                       /\ step'.created = IF ids = {} THEN 0 ELSE 1]_vars

\* C17: a step that changes a record leaves a save pending: every handled
\* state-change event and every reconciliation pass, also one that finds no
\* source, schedules one; so whenever the records differ from the document
\* written last, a save is pending.
C17_SaveAfterEveryMutation ==
    [][/\ states' # PreStates => savePending' > 0
       /\ PassStep => (savePending' > 0 /\ scheduled' > 0)
       /\ (step'.op = "event" /\ step'.delivered > 0 /\ step'.value # "None")
              => (savePending' > 0 /\ scheduled' > 0)
       /\ (pc' = "running" /\ store' # Serialize(states')) => savePending' > 0]_vars

\* How many times the sensor e was passed to async_add_entities.
Occurrences(e) == Cardinality({i \in 1..Len(added) : added[i] = e})

\* C18: every source a reconciliation pass has seen has exactly one total
\* sensor and exactly one count sensor passed to async_add_entities, and no
\* sensor is passed twice.
C18_OneSensorPairPerSource ==
    /\ \A e \in Range(added) : Occurrences(e) = 1
    /\ pc = "running"
           => \A id \in source_entity_ids :
                  /\ Occurrences(TotalSensor(id)) = 1
                  /\ Occurrences(CountSensor(id)) = 1

\* C19: for every source X a pass has seen, _entities holds the total sensor
\* of X under X and the count sensor of X under X + "_count", and the state
\* writes of a handled event for X go to exactly these two sensors.
C19_EntityKeysBelongToSource ==
    /\ pc = "running"
           => \A id \in source_entity_ids :
                  /\ {id, CountKey(id)} \subseteq DOMAIN entities
                  /\ entities[id] = TotalSensor(id)
                  /\ entities[CountKey(id)] = CountSensor(id)
    /\ (step.op = "event" /\ step.delivered > 0 /\ step.value # "None")
           => {w.entity : w \in written} = {TotalSensor(step.id), CountSensor(step.id)}

\* C20: once async_unload has run, no state-change subscription and no
\* interval timer of the manager is active, and none becomes active later.
C20_NothingActiveAfterUnload ==
    unloaded => (activeSubs = <<>> /\ activeTimers = 0 /\ ~unsub_state /\ ~unsub_interval)

====
